---- MODULE Spec2Model ----
(***************************************************************************)
(* Model of src/src/index.ts: the binding helpers (isBinding, toBinding,   *)
(* mapBinding, composeBindings) over the bindings of @rbxts/react, and the *)
(* debounce hooks (useLatest, useUnmountEffect, useDebounceCallback,       *)
(* useDebounceState) over debounce of @rbxts/set-timeout.                  *)
(***************************************************************************)
EXTENDS Integers, Sequences, FiniteSets, TLC

\* ------------------------------------------------------------------------
\* Bounds
\* ------------------------------------------------------------------------
MaxBindings == 4      \* bindings that may be allocated in one behaviour
MaxTime == 4          \* the clock runs from 0 to MaxTime
MaxWait == 2          \* options.wait ranges over 1..MaxWait
MaxExtra == 1         \* options.maxWait, when given, is wait+MaxExtra
MaxArg == 2           \* run(...) arguments range over 1..MaxArg
MaxRuns == 3          \* run calls counted in one burst (the count saturates)
MaxEvals == 2         \* evaluations counted per derived binding (saturates)
MaxDep == 3           \* a dependency of useUpdateEffect ranges over 0..MaxDep

VARIABLES
    heap,         \* the bindings allocated so far, by id (1..Len(heap))
    composed,     \* the composeBindings calls made: [res, inputs, combiner]
    mapped,       \* the mapBinding calls made: [res, source, callback]
    lastTo,       \* the last toBinding call: [called, arg, res, allocs]
    raised,       \* the last call of a binding helper or setter raised
    updated,      \* the id of the source the last step updated, or 0
    now,          \* the clock (os.clock)
    phase,        \* "init" (never rendered), "mounted", "unmounted"
    hook,         \* "callback": useDebounceCallback, "state": useDebounceState
    opts0,        \* the options of the first render
    callbackRef,  \* callbackRef.current of useDebounceCallback
    debounced,    \* the scheduler made by debounce(...)
    timers,       \* deadlines of the live setTimeout handles
    state,        \* the state of useDebounceState
    hist,         \* the last operation (op, ret, invoked) and the history of
                  \* the current burst of run calls
    isMounted,    \* isMounted.current of useUpdateEffect
    dependencies, \* the dependencies of the last effect pass of useUpdateEffect
    cleanup,      \* the effect of useUpdateEffect left a cleanup to run
    uphase,       \* the component of useUpdateEffect: "init", "mounted", "unmounted"
    uhist         \* the last effect pass of useUpdateEffect

bvars == <<heap, composed, mapped, lastTo, raised, updated>>
dvars == <<now, phase, hook, opts0, callbackRef, debounced, timers, state, hist>>
uvars == <<isMounted, dependencies, cleanup, uphase, uhist>>
vars == <<bvars, dvars, uvars>>

\* ------------------------------------------------------------------------
\* Values.  A value is a number, a reference to a binding of the heap, or a
\* plain object with a set of field names.
\* ------------------------------------------------------------------------
Num(n) == [t |-> "num", v |-> n, fields |-> {}]
Ref(i) == [t |-> "ref", v |-> i, fields |-> {"getValue", "map"}]
Obj(fs) == [t |-> "obj", v |-> 0, fields |-> fs]
\* What a function that raises yields instead of a value.
Err == [t |-> "err", v |-> 0, fields |-> {}]

Vals == {3, 4, 10}
PlainObjs == {Obj({"getValue", "map"}), Obj({"getValue"}), Obj({"x"})}
Mappers == {"inc", "dbl"}
Combiners == {"add", "sub"}
\* A combiner that raises when the sum of its arguments exceeds 12.
FaultyCombiners == {"capped"}

\* The mapper and combiner functions the callers pass.
Apply(f, args) ==
    CASE f = "inc" -> Num(args[1].v + 1)
      [] f = "dbl" -> Num(2 * args[1].v)
      [] f = "add" -> Num(args[1].v + args[2].v)
      [] f = "sub" -> Num(args[1].v - args[2].v)
      [] f = "id"  -> args[1]
      [] f = "capped" -> IF args[1].v + args[2].v > 12 THEN Err
                         ELSE Num(args[1].v + args[2].v)
      [] f = "cappedOrZero" -> IF args[1].v + args[2].v > 12 THEN Num(0)
                               ELSE Num(args[1].v + args[2].v)

\* ------------------------------------------------------------------------
\* Bindings of @rbxts/react: createBinding, Binding.map, joinBindings.
\* A binding caches its value as a tuple: one element for a source or a
\* mapped binding, one element per upstream for a joined one.
\* ------------------------------------------------------------------------
createBinding(h, value, settable) ==
    Append(h, [kind |-> "source", ups |-> <<>>, fn |-> "id",
               value |-> <<value>>, settable |-> settable, evals |-> 0])

RECURSIVE JoinValues(_, _)
JoinValues(h, ups) ==
    IF ups = <<>> THEN <<>>
    ELSE <<h[Head(ups)].value[1]>> \o JoinValues(h, Tail(ups))

joinBindings(h, ups) ==
    Append(h, [kind |-> "join", ups |-> ups, fn |-> "id",
               value |-> JoinValues(h, ups), settable |-> FALSE, evals |-> 0])

Binding_map(h, up, f) ==
    Append(h, [kind |-> "map", ups |-> <<up>>, fn |-> f,
               value |-> <<Apply(f, h[up].value)>>, settable |-> FALSE,
               evals |-> 1])

\* A source notifies its dependents; each dependent of a changed binding
\* recomputes, upstream before downstream (ids grow downstream).  When a
\* recomputation raises, the error leaves through the update that caused
\* it: the binding keeps its cached value and the propagation ends.
RECURSIVE Propagate(_, _, _)
Propagate(h, i, dirty) ==
    IF i > Len(h) THEN [heap |-> h, raised |-> FALSE]
    ELSE IF \E k \in 1..Len(h[i].ups) : h[i].ups[k] \in dirty
         THEN LET b == h[i]
                  nv == IF b.kind = "join" THEN JoinValues(h, b.ups)
                        ELSE <<Apply(b.fn, h[b.ups[1]].value)>>
                  ne == IF b.kind = "map" /\ b.evals < MaxEvals THEN b.evals + 1 ELSE b.evals
              IN IF nv = <<Err>>
                 THEN [heap |-> [h EXCEPT ![i].evals = ne], raised |-> TRUE]
                 ELSE Propagate([h EXCEPT ![i].value = nv, ![i].evals = ne],
                                i + 1, dirty \cup {i})
         ELSE Propagate(h, i + 1, dirty)

Binding_update(h, id, value) ==
    Propagate([h EXCEPT ![id].value = <<value>>], 1, {id})

\* ------------------------------------------------------------------------
\* src/src/index.ts: isBinding, toBinding, mapBinding, composeBindings.
\* The operators take the heap and return [heap, res].
\* ------------------------------------------------------------------------
Truthy(value) == ~(value.t = "num" /\ value.v = 0)
TypeOf(value) == IF value.t = "num" THEN "number" ELSE "object"

isBinding(value) ==
    /\ Truthy(value)
    /\ TypeOf(value) = "object"
    /\ "getValue" \in value.fields
    /\ "map" \in value.fields

toBinding_settable(h, value) ==
    IF isBinding(value)
    THEN [heap |-> h, res |-> value]
    ELSE [heap |-> createBinding(h, value, TRUE), res |-> Ref(Len(h) + 1)]

toBinding_wrap(h, value) ==
    [heap |-> createBinding(h, value, FALSE), res |-> Ref(Len(h) + 1)]

toBinding(h, value) ==
    IF isBinding(value)
    THEN [heap |-> h, res |-> value]
    ELSE [heap |-> createBinding(h, value, FALSE), res |-> Ref(Len(h) + 1)]

mapBinding_stale(h, binding, callback) ==
    [heap |-> createBinding(h, Apply(callback,
                 IF isBinding(binding) THEN h[binding.v].value ELSE <<binding>>),
                 FALSE),
     res |-> Ref(Len(h) + 1)]

mapBinding(h, binding, callback) ==
    IF isBinding(binding)
    THEN [heap |-> Binding_map(h, binding.v, callback), res |-> Ref(Len(h) + 1)]
    ELSE [heap |-> createBinding(h, Apply(callback, <<binding>>), FALSE),
          res |-> Ref(Len(h) + 1)]

\* values.map(toBinding): left to right, the ids of the lifted inputs.
RECURSIVE MapToBinding(_, _)
MapToBinding(h, values) ==
    IF values = <<>> THEN [heap |-> h, ids |-> <<>>]
    ELSE LET first == toBinding(h, Head(values))
             rest == MapToBinding(first.heap, Tail(values))
         IN [heap |-> rest.heap, ids |-> <<first.res.v>> \o rest.ids]

Reverse(s) == [i \in 1..Len(s) |-> s[Len(s) + 1 - i]]

\* The combiner inside a handler that yields 0 when it raises.
Guarded(combiner) == IF combiner = "capped" THEN "cappedOrZero" ELSE combiner

composeBindings_guarded(h, values, combiner) ==
    LET lifted == MapToBinding(h, values)
        joined == joinBindings(lifted.heap, lifted.ids)
    IN [heap |-> Binding_map(joined, Len(joined), Guarded(combiner)),
        res |-> Ref(Len(joined) + 1)]

composeBindings_swapped(h, values, combiner) ==
    LET lifted == MapToBinding(h, values)
        joined == joinBindings(lifted.heap, Reverse(lifted.ids))
    IN [heap |-> Binding_map(joined, Len(joined), combiner),
        res |-> Ref(Len(joined) + 1)]

composeBindings(h, values, combiner) ==
    LET lifted == MapToBinding(h, values)
        joined == joinBindings(lifted.heap, lifted.ids)
    IN [heap |-> Binding_map(joined, Len(joined), combiner),
        res |-> Ref(Len(joined) + 1)]

\* ------------------------------------------------------------------------
\* The callers of the binding helpers.
\* ------------------------------------------------------------------------
\* The inputs a caller may pass where a number or a binding of a number is
\* expected.
IsNumBinding(h, i) == Len(h[i].value) = 1 /\ h[i].value[1].t = "num"
NumBindables(h) ==
    {Num(n) : n \in Vals} \cup {Ref(i) : i \in {j \in 1..Len(h) : IsNumBinding(h, j)}}
Bindables(h) == NumBindables(h) \cup PlainObjs \cup {Num(0)}

\* const [binding, setBinding] = createBinding(v)
CreateSource(v) ==
    /\ Len(heap) < MaxBindings
    /\ heap' = createBinding(heap, Num(v), TRUE)
    /\ raised' = FALSE
    /\ updated' = 0
    /\ UNCHANGED <<composed, mapped, lastTo, dvars, uvars>>

\* setBinding(v)
UpdateSource(id, v) ==
    /\ heap[id].settable
    /\ LET r == Binding_update(heap, id, Num(v))
       IN heap' = r.heap /\ raised' = r.raised
    /\ updated' = id
    /\ UNCHANGED <<composed, mapped, lastTo, dvars, uvars>>

ToBinding(value) ==
    /\ Len(heap) < MaxBindings
    /\ LET r == toBinding(heap, value)
       IN /\ heap' = r.heap
          /\ lastTo' = [called |-> TRUE, arg |-> value, res |-> r.res,
                        allocs |-> Len(r.heap) - Len(heap)]
    /\ raised' = FALSE
    /\ updated' = 0
    /\ UNCHANGED <<composed, mapped, dvars, uvars>>

MapBinding(binding, callback) ==
    /\ Len(heap) < MaxBindings
    /\ LET r == mapBinding(heap, binding, callback)
       IN /\ heap' = r.heap
          /\ mapped' = mapped \cup
                 {[res |-> r.res.v, source |-> binding, callback |-> callback]}
    /\ raised' = FALSE
    /\ updated' = 0
    /\ UNCHANGED <<composed, lastTo, dvars, uvars>>

\* A combiner that raises at the first computation makes composeBindings
\* raise: no binding is returned.
ComposeBindings(values, combiner) ==
    /\ LET r == composeBindings(heap, values, combiner)
       IN /\ Len(r.heap) <= MaxBindings
          /\ IF r.heap[r.res.v].value = <<Err>>
             THEN heap' = heap /\ composed' = composed /\ raised' = TRUE
             ELSE /\ heap' = r.heap
                  /\ composed' = composed \cup
                        {[res |-> r.res.v, inputs |-> values, combiner |-> combiner]}
                  /\ raised' = FALSE
    /\ updated' = 0
    /\ UNCHANGED <<mapped, lastTo, dvars, uvars>>

\* ------------------------------------------------------------------------
\* debounce of @rbxts/set-timeout: the scheduler of a debounced function.
\* Each operation takes the scheduler d, the live timers tm, the time and
\* the callee cb, and returns [d, timers, invoked, arg]: the new scheduler
\* and timers, and whether (and with what) it invoked the callback. run
\* also returns result, the value the call hands back to its caller.
\* ------------------------------------------------------------------------
Callbacks == {"cbA", "cbB"}
Args == 1..MaxArg

\* What callback cb returns for arg (setState returns nothing).
Return(cb, arg) ==
    CASE cb = "cbA" -> 10 * arg + 1
      [] cb = "cbB" -> 10 * arg + 2
      [] cb = "setState" -> 0

Min(a, b) == IF a <= b THEN a ELSE b

OptionSet ==
    {[wait |-> w, maxing |-> m, maxWait |-> mw, leading |-> l, trailing |-> t] :
        w \in 1..MaxWait, m \in BOOLEAN, mw \in 0..(MaxWait + MaxExtra),
        l \in BOOLEAN, t \in BOOLEAN}
Options ==
    {o \in OptionSet :
        /\ o.leading \/ o.trailing
        /\ o.maxWait = IF o.maxing THEN o.wait + MaxExtra ELSE 0}

\* Options outside the valid domain: a negative wait, a negative maxWait, a
\* maxWait below wait (leading and trailing left at their defaults).
BadOptions ==
    {o \in [wait : -1..MaxWait, maxing : BOOLEAN, maxWait : -1..MaxWait,
            leading : {FALSE}, trailing : {TRUE}] :
        /\ ~o.maxing => o.maxWait = 0
        /\ \/ o.wait < 0
           \/ o.maxing /\ o.maxWait < 0
           \/ o.maxing /\ o.maxWait < o.wait}

NoOptions ==
    [wait |-> 0, maxing |-> FALSE, maxWait |-> 0, leading |-> FALSE,
     trailing |-> FALSE]

\* The options debounce assumes when it is given none.
DefaultOptions ==
    [wait |-> 0, maxing |-> FALSE, maxWait |-> 0, leading |-> FALSE,
     trailing |-> TRUE]

NoDebounce ==
    [created |-> FALSE, wait |-> 0, maxing |-> FALSE, maxWait |-> 0,
     leading |-> FALSE, trailing |-> FALSE, status |-> "Idle",
     hasArgs |-> FALSE, lastArgs |-> 0, result |-> 0, burstStart |-> 0]

debounce(wait, options) ==
    [created |-> TRUE, wait |-> wait, maxing |-> options.maxing,
     maxWait |-> options.maxWait, leading |-> options.leading,
     trailing |-> options.trailing, status |-> "Idle",
     hasArgs |-> FALSE, lastArgs |-> 0, result |-> 0, burstStart |-> 0]

\* run(...args): record the arguments, fire the leading edge when Idle and
\* leading, and (re)arm the one timer: wait after this call, and no later
\* than maxWait after the first call of the burst.
debounced_run(d, tm, time, arg, cb) ==
    LET idle == d.status = "Idle"
        lead == idle /\ d.leading
        start == IF idle THEN time ELSE d.burstStart
        deadline == IF d.maxing THEN Min(time + d.wait, start + d.maxWait)
                    ELSE time + d.wait
    IN [d |-> [d EXCEPT !.status = "Pending", !.hasArgs = TRUE,
                        !.lastArgs = arg, !.burstStart = start,
                        !.result = IF lead THEN Return(cb, arg) ELSE @],
        timers |-> {deadline},
        invoked |-> lead,
        arg |-> arg,
        result |-> IF lead THEN Return(cb, arg) ELSE d.result]

\* The timer with this deadline fires: the trailing edge.
debounced_timerExpired(d, tm, deadline, cb) ==
    LET fire == d.status = "Pending" /\ d.trailing /\ d.hasArgs
    IN [d |-> [d EXCEPT !.status = "Idle", !.hasArgs = FALSE, !.lastArgs = 0,
                        !.result = IF fire THEN Return(cb, d.lastArgs) ELSE @],
        timers |-> tm \ {deadline},
        invoked |-> fire,
        arg |-> d.lastArgs]

debounced_cancel(d, tm, time, cb) ==
    [d |-> [d EXCEPT !.status = "Idle", !.hasArgs = FALSE, !.lastArgs = 0],
     timers |-> {},
     invoked |-> FALSE,
     arg |-> 0]

debounced_flush(d, tm, time, cb) ==
    IF d.status = "Pending"
    THEN [d |-> [d EXCEPT !.status = "Idle", !.hasArgs = FALSE, !.lastArgs = 0,
                          !.result = Return(cb, d.lastArgs)],
          timers |-> {},
          invoked |-> TRUE,
          arg |-> d.lastArgs]
    ELSE [d |-> d, timers |-> tm, invoked |-> FALSE, arg |-> 0]

debounced_pending(d, tm) == d.status = "Pending"

\* ------------------------------------------------------------------------
\* src/src/index.ts: useLatest, useUnmountEffect, useDebounceCallback,
\* useDebounceState.
\* ------------------------------------------------------------------------
isStrictEqual(a, b) == a = b

useLatest_initial(ref, first, value) == IF first THEN value ELSE ref

\* ref.current after a render with this value.
useLatest(ref, first, value) ==
    IF first THEN value
    ELSE IF ~isStrictEqual(ref, value) THEN value ELSE ref

\* The function handed to debounce: callbackRef.current(...args).
Wrapped(ref) == ref

useDebounceCallback_noWait(first, ref, d, callback, options) ==
    [callbackRef |-> useLatest(ref, first, callback),
     debounced |-> IF first THEN debounce(0, options) ELSE d]

useDebounceCallback_noOptions(first, ref, d, callback, options) ==
    [callbackRef |-> useLatest(ref, first, callback),
     debounced |-> IF first THEN debounce(options.wait, DefaultOptions) ELSE d]

useDebounceCallback_remade(first, ref, d, callback, options) ==
    [callbackRef |-> useLatest(ref, first, callback),
     debounced |-> debounce(options.wait, options)]

\* One render of useDebounceCallback(callback, options): the ref follows
\* the callback, useMemo with no dependencies makes the scheduler once.
useDebounceCallback(first, ref, d, callback, options) ==
    [callbackRef |-> useLatest(ref, first, callback),
     debounced |-> IF first THEN debounce(options.wait, options) ELSE d]

\* The control surface useDebounceCallback returns.
UseDebounceResult_run_noClear(d, tm, time, arg, cb) ==
    [debounced_run(d, tm, time, arg, cb) EXCEPT !.timers = @ \cup tm]
UseDebounceResult_run_eager(d, tm, time, arg, cb) ==
    [debounced_run(d, tm, time, arg, cb) EXCEPT !.result = Return(cb, arg)]
UseDebounceResult_run(d, tm, time, arg, cb) == debounced_run(d, tm, time, arg, cb)
UseDebounceResult_cancel_flushes(d, tm, time, cb) == debounced_flush(d, tm, time, cb)
UseDebounceResult_cancel_runs(d, tm, time, cb) ==
    [d |-> debounced_run(d, tm, time, 0, cb).d,
     timers |-> debounced_run(d, tm, time, 0, cb).timers,
     invoked |-> FALSE,
     arg |-> 0]
UseDebounceResult_cancel(d, tm, time, cb) == debounced_cancel(d, tm, time, cb)
UseDebounceResult_flush_cancels(d, tm, time, cb) == debounced_cancel(d, tm, time, cb)
UseDebounceResult_flush(d, tm, time, cb) == debounced_flush(d, tm, time, cb)
UseDebounceResult_pending_stale(d, tm) == FALSE
UseDebounceResult_pending(d, tm) == debounced_pending(d, tm)

useUnmountEffect_skipped(d, tm, time, cb) ==
    [d |-> d, timers |-> tm, invoked |-> FALSE, arg |-> 0]

\* The cleanup of useUnmountEffect(() => debounced.cancel()).
useUnmountEffect(d, tm, time, cb) == debounced_cancel(d, tm, time, cb)

useDebounceState_direct(d, tm, time, arg, cb) ==
    [d |-> d, timers |-> tm, invoked |-> TRUE, arg |-> arg, result |-> 0]

\* The setter useDebounceState returns: run of the scheduler over setState.
useDebounceState(d, tm, time, arg, cb) == UseDebounceResult_run(d, tm, time, arg, cb)

\* ------------------------------------------------------------------------
\* The component that uses the hook, the clock and the timer facility.
\* ------------------------------------------------------------------------
\* The effects of a scheduler operation r whose callee is cb; h is hist
\* with the operation's own bookkeeping.
Effects(r, cb, h) ==
    /\ debounced' = r.d
    /\ timers' = r.timers
    /\ state' = IF r.invoked /\ cb = "setState" THEN r.arg ELSE state
    /\ hist' = IF r.invoked
               THEN [h EXCEPT !.invoked = TRUE, !.ret = FALSE,
                              !.burstInvokes = @ + 1,
                              !.lastCb = cb, !.lastArg = r.arg,
                              !.sinceCancel = IF @ >= 0 THEN 1 ELSE @]
               ELSE [h EXCEPT !.invoked = FALSE, !.ret = FALSE]

\* The component renders (the first render mounts it).
Render(callback, options) ==
    /\ phase # "unmounted"
    /\ callback = "setState" <=> hook = "state"
    /\ LET first == phase = "init"
           r == useDebounceCallback(first, callbackRef, debounced, callback, options)
       IN /\ callbackRef' = r.callbackRef
          /\ debounced' = r.debounced
          /\ opts0' = IF first THEN options ELSE opts0
    /\ phase' = "mounted"
    /\ hist' = [hist EXCEPT !.op = "other", !.invoked = FALSE, !.ret = FALSE,
                            !.runRet = 0, !.again = FALSE,
                            !.renderCb = callback,
                            !.runCb = IF hist.scheduled THEN @ ELSE "none",
                            !.reopts = phase = "mounted" /\ options # opts0]
    /\ UNCHANGED <<now, hook, timers, state, bvars, uvars>>

\* The first render with options outside the valid domain, when debounce
\* raises for them: the error leaves the render and the component never
\* mounts.
RenderRejected(callback, options) ==
    /\ phase = "init"
    /\ hook = "callback"
    /\ options \in BadOptions
    /\ opts0' = options
    /\ phase' = "unmounted"
    /\ hist' = [hist EXCEPT !.op = "rejected", !.renderCb = callback]
    /\ UNCHANGED <<now, hook, callbackRef, debounced, timers, state, bvars,
                   uvars>>

\* run(arg), or the setter of useDebounceState.
Run(arg) ==
    /\ phase = "mounted"
    /\ LET cb == Wrapped(callbackRef)
           r == IF hook = "state"
                THEN useDebounceState(debounced, timers, now, arg, cb)
                ELSE UseDebounceResult_run(debounced, timers, now, arg, cb)
           fresh == ~hist.scheduled
           h == [hist EXCEPT !.op = "run",
                             !.runs = IF fresh THEN 1 ELSE Min(@ + 1, MaxRuns),
                             !.burstInvokes = IF fresh THEN 0 ELSE @,
                             !.burstStart = IF fresh THEN now ELSE @,
                             !.lastRunArg = arg, !.lastRunTime = now,
                             !.sinceCancel = -1, !.scheduled = TRUE,
                             !.runRet = r.result, !.runCb = hist.renderCb,
                             !.again = FALSE, !.reopts = FALSE]
       IN Effects(r, cb, h)
    /\ UNCHANGED <<now, phase, hook, opts0, callbackRef, bvars, uvars>>

Cancel ==
    /\ phase = "mounted"
    /\ hook = "callback"
    /\ LET cb == Wrapped(callbackRef)
           r == UseDebounceResult_cancel(debounced, timers, now, cb)
           h == [hist EXCEPT !.op = "cancel", !.scheduled = FALSE,
                             !.sinceCancel = 0, !.runRet = 0,
                             !.runCb = "none", !.reopts = FALSE,
                             !.again = hist.op = "cancel"]
       IN Effects(r, cb, h)
    /\ UNCHANGED <<now, phase, hook, opts0, callbackRef, bvars, uvars>>

Flush ==
    /\ phase = "mounted"
    /\ hook = "callback"
    /\ LET cb == Wrapped(callbackRef)
           r == UseDebounceResult_flush(debounced, timers, now, cb)
           h == [hist EXCEPT !.op = "flush", !.scheduled = FALSE,
                             !.runRet = 0, !.again = FALSE, !.reopts = FALSE]
       IN Effects(r, cb, h)
    /\ UNCHANGED <<now, phase, hook, opts0, callbackRef, bvars, uvars>>

Pending ==
    /\ phase = "mounted"
    /\ hook = "callback"
    /\ hist' = [hist EXCEPT !.op = "pending", !.invoked = FALSE,
                            !.ret = UseDebounceResult_pending(debounced, timers),
                            !.runRet = 0, !.again = FALSE, !.reopts = FALSE,
                            !.runCb = IF hist.scheduled THEN @ ELSE "none"]
    /\ UNCHANGED <<now, phase, hook, opts0, callbackRef, debounced, timers,
                   state, bvars, uvars>>

\* A live timer reaches its deadline.
TimerExpired ==
    /\ \E deadline \in timers :
        /\ deadline <= now
        /\ LET cb == Wrapped(callbackRef)
               r == debounced_timerExpired(debounced, timers, deadline, cb)
               h == [hist EXCEPT !.op = "timer", !.scheduled = FALSE,
                                 !.runRet = 0, !.again = FALSE,
                                 !.reopts = FALSE]
           IN Effects(r, cb, h)
    /\ UNCHANGED <<now, phase, hook, opts0, callbackRef, bvars, uvars>>

\* Time passes; a timer fires no later than its deadline.
Tick ==
    /\ now < MaxTime
    /\ \A deadline \in timers : deadline > now
    /\ now' = now + 1
    /\ hist' = [hist EXCEPT !.op = "other", !.invoked = FALSE, !.ret = FALSE,
                            !.runRet = 0, !.again = FALSE, !.reopts = FALSE,
                            !.runCb = IF hist.scheduled THEN @ ELSE "none"]
    /\ UNCHANGED <<phase, hook, opts0, callbackRef, debounced, timers, state,
                   bvars, uvars>>

\* The component unmounts: the effect cleanups run.
Unmount ==
    /\ phase = "mounted"
    /\ LET cb == Wrapped(callbackRef)
           r == useUnmountEffect(debounced, timers, now, cb)
           h == [hist EXCEPT !.op = "unmount", !.scheduled = FALSE,
                             !.runRet = 0, !.again = FALSE, !.reopts = FALSE,
                             !.runCb = "none"]
       IN Effects(r, cb, h)
    /\ phase' = "unmounted"
    /\ UNCHANGED <<now, hook, opts0, callbackRef, bvars, uvars>>

\* ------------------------------------------------------------------------
\* src/src/index.ts: useUpdateEffect, and the component that uses it.
\* ------------------------------------------------------------------------
\* Dependency lists are pairs of numbers; NoDeps is a call without the
\* dependencies argument, Unset the time before the first effect pass.
DepLists == (0..MaxDep) \X (0..MaxDep)
NoDeps == <<>>
Unset == <<-1>>

\* useEffect(callback, dependencies): the callback runs after the first
\* render, and after a later one when no dependencies are given or one of
\* them differs from the previous render's.
useEffect(previous, next) ==
    \/ previous = Unset
    \/ next = NoDeps
    \/ \E i \in 1..Len(next) : ~isStrictEqual(previous[i], next[i])

useUpdateEffect_eager(mounted) == [isMounted |-> TRUE, ran |-> TRUE]

\* The callback useUpdateEffect gives to useEffect: run the effect when
\* isMounted.current is set, set it otherwise.
useUpdateEffect(mounted) ==
    IF mounted THEN [isMounted |-> mounted, ran |-> TRUE]
    ELSE [isMounted |-> TRUE, ran |-> FALSE]

\* The component renders with these dependencies and its effects are
\* passed; the effect, when it runs, may return a cleanup.
RenderUpdate(deps, withCleanup) ==
    /\ uphase # "unmounted"
    /\ dependencies # Unset => (deps = NoDeps <=> dependencies = NoDeps)
    /\ LET pass == useEffect(dependencies, deps)
           r == IF pass THEN useUpdateEffect(isMounted)
                ELSE [isMounted |-> isMounted, ran |-> FALSE]
       IN /\ isMounted' = r.isMounted
          /\ cleanup' = IF pass THEN r.ran /\ withCleanup ELSE cleanup
          /\ uhist' = [op |-> IF uphase = "init" THEN "first" ELSE "rerender",
                       ran |-> r.ran,
                       changed |-> deps = NoDeps \/ deps # dependencies,
                       cleaned |-> pass /\ cleanup]
    /\ dependencies' = deps
    /\ uphase' = "mounted"
    /\ UNCHANGED <<bvars, dvars>>

\* The component unmounts: a cleanup the effect left runs.
UnmountUpdate ==
    /\ uphase = "mounted"
    /\ uphase' = "unmounted"
    /\ cleanup' = FALSE
    /\ uhist' = [op |-> "unmount", ran |-> FALSE, changed |-> FALSE,
                 cleaned |-> cleanup]
    /\ UNCHANGED <<isMounted, dependencies, bvars, dvars>>

UInit ==
    /\ isMounted = FALSE
    /\ dependencies = Unset
    /\ cleanup = FALSE
    /\ uphase = "init"
    /\ uhist = [op |-> "init", ran |-> FALSE, changed |-> FALSE,
                cleaned |-> FALSE]

UpdateEffectNext ==
    \/ \E deps \in DepLists \cup {NoDeps}, withCleanup \in BOOLEAN :
           RenderUpdate(deps, withCleanup)
    \/ UnmountUpdate

InitState == 0

DInit ==
    /\ now = 0
    /\ phase = "init"
    /\ hook = "callback"
    /\ opts0 = NoOptions
    /\ callbackRef = "none"
    /\ debounced = NoDebounce
    /\ timers = {}
    /\ state = InitState
    /\ hist = [op |-> "init", ret |-> FALSE, invoked |-> FALSE, lastCb |-> "none",
               lastArg |-> 0, runs |-> 0, burstInvokes |-> 0,
               burstStart |-> 0, lastRunArg |-> 0, lastRunTime |-> 0,
               sinceCancel |-> -1, scheduled |-> FALSE, runRet |-> 0,
               renderCb |-> "none", runCb |-> "none", reopts |-> FALSE,
               again |-> FALSE]

\* The component calls useDebounceState instead.
DInitState ==
    /\ now = 0
    /\ phase = "init"
    /\ hook = "state"
    /\ opts0 = NoOptions
    /\ callbackRef = "none"
    /\ debounced = NoDebounce
    /\ timers = {}
    /\ state = InitState
    /\ hist = [op |-> "init", ret |-> FALSE, invoked |-> FALSE, lastCb |-> "none",
               lastArg |-> 0, runs |-> 0, burstInvokes |-> 0,
               burstStart |-> 0, lastRunArg |-> 0, lastRunTime |-> 0,
               sinceCancel |-> -1, scheduled |-> FALSE, runRet |-> 0,
               renderCb |-> "none", runCb |-> "none", reopts |-> FALSE,
               again |-> FALSE]

DNext ==
    \/ \E callback \in Callbacks, options \in Options :
           Render(callback, options)
    \/ \E arg \in Args : Run(arg)
    \/ Cancel
    \/ Flush
    \/ Pending
    \/ TimerExpired
    \/ Tick
    \/ Unmount

BInit ==
    /\ heap = <<>>
    /\ composed = {}
    /\ mapped = {}
    /\ lastTo = [called |-> FALSE, arg |-> Num(0), res |-> Num(0), allocs |-> 0]
    /\ raised = FALSE
    /\ updated = 0

ToBindingNext ==
    \/ \E v \in Vals : CreateSource(v)
    \/ \E id \in 1..Len(heap), v \in Vals : UpdateSource(id, v)
    \/ \E value \in Bindables(heap) : ToBinding(value)

MapBindingNext ==
    \/ \E v \in Vals : CreateSource(v)
    \/ \E id \in 1..Len(heap), v \in Vals : UpdateSource(id, v)
    \/ \E binding \in NumBindables(heap), callback \in Mappers :
           MapBinding(binding, callback)

ComposeNext ==
    \/ \E v \in Vals : CreateSource(v)
    \/ \E id \in 1..Len(heap), v \in Vals : UpdateSource(id, v)
    \/ \E a \in NumBindables(heap), callback \in Mappers :
           ComposeBindings(<<a>>, callback)
    \/ \E a \in NumBindables(heap), b \in NumBindables(heap), combiner \in Combiners :
           ComposeBindings(<<a, b>>, combiner)

DStateNext ==
    \/ \E options \in Options : Render("setState", options)
    \/ \E arg \in Args : Run(arg)
    \/ TimerExpired
    \/ Tick
    \/ Unmount

\* The component passes options outside the valid domain; debounce may
\* raise for them or take them.
MisuseNext ==
    \/ \E callback \in Callbacks, options \in BadOptions :
           Render(callback, options)
    \/ \E callback \in Callbacks, options \in BadOptions :
           RenderRejected(callback, options)
    \/ \E arg \in Args : Run(arg)
    \/ Cancel
    \/ TimerExpired
    \/ Tick
    \/ Unmount

ComposeFaultNext ==
    \/ \E v \in Vals : CreateSource(v)
    \/ \E id \in 1..Len(heap), v \in Vals : UpdateSource(id, v)
    \/ \E a \in NumBindables(heap), b \in NumBindables(heap),
          combiner \in Combiners \cup FaultyCombiners :
           ComposeBindings(<<a, b>>, combiner)

Init == BInit /\ DInit /\ UInit
InitDebounceState == BInit /\ DInitState /\ UInit

SpecToBinding == Init /\ [][ToBindingNext]_vars
SpecMapBinding == Init /\ [][MapBindingNext]_vars
SpecCompose == Init /\ [][ComposeNext]_vars
SpecComposeFault == Init /\ [][ComposeFaultNext]_vars
SpecDebounce == Init /\ [][DNext]_vars
SpecDebounceState == InitDebounceState /\ [][DStateNext]_vars
SpecUpdateEffect == Init /\ [][UpdateEffectNext]_vars
SpecMisuse == Init /\ [][MisuseNext]_vars

\* ------------------------------------------------------------------------
\* Properties of the binding helpers
\* ------------------------------------------------------------------------
\* The current value of an input: the value a binding holds now, the plain
\* value itself otherwise.
CurrentValue(x) == IF x.t = "ref" THEN heap[x.v].value[1] ELSE x
CurrentValues(xs) == [i \in 1..Len(xs) |-> CurrentValue(xs[i])]

\* C1: at creation and after any sequence of updates of the sources, the
\* value of a binding returned by composeBindings(in_1, ..., in_n, combiner)
\* is combiner(v_1, ..., v_n), v_i being the current value of the i-th input,
\* in the order the inputs were given.
C1_ComposedValue ==
    \A c \in composed :
        heap[c.res].value = <<Apply(c.combiner, CurrentValues(c.inputs))>>

\* compose(3, container(4), add) after the container was updated to 10: 13.
C1_Witness ==
    \E c \in composed :
        /\ c.combiner = "add"
        /\ Len(c.inputs) = 2
        /\ c.inputs[1] = Num(3)
        /\ c.inputs[2].t = "ref"
        /\ heap[c.inputs[2].v].settable
        /\ heap[c.inputs[2].v].value = <<Num(10)>>
        /\ heap[c.res].evals = 2
        /\ heap[c.res].value = <<Num(13)>>

\* C8: mapBinding(source, f) of a plain value is a constant binding holding
\* f(source); of a binding, it holds f(source value) at the call and
\* f(newValue) after every update of the source to newValue.
C8_MappedValue ==
    \A m \in mapped :
        /\ heap[m.res].value = <<Apply(m.callback, <<CurrentValue(m.source)>>)>>
        /\ m.source.t # "ref" =>
              /\ heap[m.res].kind = "source"
              /\ heap[m.res].ups = <<>>
              /\ ~heap[m.res].settable

\* A mapped binding whose source was updated after the call, and a mapped
\* plain value.
C8_Witness ==
    /\ \E m \in mapped :
          /\ m.source.t = "ref"
          /\ heap[m.source.v].settable
          /\ heap[m.res].evals = 2
          /\ heap[m.res].value = <<Apply(m.callback, heap[m.source.v].value)>>
    /\ \E m \in mapped :
          /\ m.source.t = "num"
          /\ heap[m.res].value = <<Apply(m.callback, <<m.source>>)>>

C2_Original ==
    opts0.trailing /\ ~opts0.maxing =>
        /\ hist.scheduled => hist.burstInvokes = 0
        /\ hist.op = "timer" =>
              /\ hist.burstInvokes = 1
              /\ hist.lastArg = hist.lastRunArg
              /\ now >= hist.lastRunTime + opts0.wait

\* C2 (amended): the same, with leading disabled.
C2_Burst ==
    opts0.trailing /\ ~opts0.leading /\ ~opts0.maxing =>
        /\ hist.scheduled => hist.burstInvokes = 0
        /\ hist.op = "timer" =>
              /\ hist.burstInvokes = 1
              /\ hist.lastArg = hist.lastRunArg
              /\ now >= hist.lastRunTime + opts0.wait

\* The timer expired after a burst of three or more run calls.
C2_Witness ==
    /\ opts0.trailing /\ ~opts0.leading /\ ~opts0.maxing
    /\ hist.op = "timer"
    /\ hist.invoked
    /\ hist.runs = MaxRuns
    /\ hist.lastArg = hist.lastRunArg
    /\ now > hist.burstStart + opts0.wait

\* C3: flush() while Pending invokes the callback exactly once, in the same
\* step, with the arguments of the most recent run call, and leaves the
\* scheduler Idle with no timer, so that no timer expiry follows for the
\* flushed call; flush() while Idle invokes nothing.
C3_Flush ==
    [][/\ hist'.op = "flush" =>
            IF hist.scheduled
            THEN /\ hist'.invoked
                 /\ hist'.burstInvokes = hist.burstInvokes + 1
                 /\ hist'.lastArg = hist.lastRunArg
                 /\ now' = now
                 /\ debounced'.status = "Idle"
                 /\ timers' = {}
            ELSE ~hist'.invoked /\ debounced' = debounced /\ timers' = timers
       /\ hist'.op = "timer" => hist.scheduled]_vars

\* flush() after three run calls, before the timer fired.
C3_Witness ==
    /\ hist.op = "flush"
    /\ hist.invoked
    /\ hist.runs = MaxRuns
    /\ ~opts0.leading
    /\ hist.burstInvokes = 1
    /\ hist.lastArg = hist.lastRunArg
    /\ now < hist.lastRunTime + opts0.wait
    /\ timers = {}

\* C4: cancel() while Pending discards the timer and the pending arguments
\* and moves to Idle; the stored last result is unchanged, and no invocation
\* follows until run is called again.
C4_Cancel ==
    [][/\ hist'.op = "cancel" /\ hist.scheduled =>
            /\ timers' = {}
            /\ ~debounced'.hasArgs
            /\ debounced'.status = "Idle"
            /\ debounced'.result = debounced.result
            /\ ~hist'.invoked
       /\ hist.sinceCancel >= 0 /\ hist'.op # "run" => ~hist'.invoked]_vars

\* A burst cancelled after an earlier burst left a result, and time has
\* passed the deadline of the cancelled call.
C4_Witness ==
    /\ hist.sinceCancel = 0
    /\ hist.runs >= 2
    /\ hist.burstInvokes = 0
    /\ debounced.result # 0
    /\ now >= hist.lastRunTime + opts0.wait
    /\ timers = {}

C6_Unmount ==
    [][/\ hist'.op = "unmount" => timers' = {} /\ ~hist'.invoked
       /\ phase = "unmounted" => timers' = {} /\ ~hist'.invoked]_vars

\* Unmounted with a run call that was neither fired, flushed nor cancelled,
\* and time has passed its deadline.
C6_Witness ==
    /\ phase = "unmounted"
    /\ opts0.trailing /\ ~opts0.leading
    /\ hist.runs >= 1
    /\ hist.burstInvokes = 0
    /\ hist.sinceCancel = -1
    /\ now >= hist.lastRunTime + opts0.wait
    /\ timers = {}

\* C7 as stated: setter calls do not change the state of useDebounceState;
\* it changes only when the timer fires or on flush, to the value of the
\* most recent setter call.
C7_Original ==
    [][/\ hist'.op = "run" => state' = state
       /\ state' # state => hist'.op \in {"timer", "flush"}
       /\ hist'.invoked => state' = hist'.lastRunArg]_vars

\* C7 (amended): setter calls during a burst do not change the state; it
\* changes only when the scheduler invokes the setter (timer expiry, flush,
\* or the leading edge of a burst when leading is enabled), each time to the
\* value of the most recent setter call.
C7_State ==
    [][/\ hist.scheduled /\ hist'.op = "run" => state' = state
       /\ state' # state => hist'.invoked
       /\ ~opts0.leading /\ state' # state => hist'.op \in {"timer", "flush"}
       /\ hist'.invoked => state' = hist'.lastRunArg]_vars

\* The timer fired after repeated setter calls and the state took the last
\* value.
C7_Witness ==
    /\ hook = "state"
    /\ hist.op = "timer"
    /\ hist.invoked
    /\ hist.runs >= 2
    /\ state = hist.lastRunArg
    /\ state # InitState

\* C10: pending() is true exactly while a run call is scheduled and has not
\* fired, been flushed or been cancelled.
C10_Pending ==
    debounced.created =>
        /\ UseDebounceResult_pending(debounced, timers) = hist.scheduled
        /\ hist.op = "pending" => hist.ret = hist.scheduled

\* pending() answered true during a burst.
C10_Witness ==
    /\ hist.op = "pending"
    /\ hist.ret
    /\ hist.scheduled
    /\ hist.runs >= 2

\* ------------------------------------------------------------------------
\* Further properties of the binding helpers
\* ------------------------------------------------------------------------
AllPlain(xs) == \A i \in 1..Len(xs) : xs[i].t # "ref"

\* The bindings a binding is computed from, directly or not.
RECURSIVE Upstream(_, _)
Upstream(h, i) ==
    LET direct == {h[i].ups[k] : k \in 1..Len(h[i].ups)}
    IN direct \cup UNION {Upstream(h, j) : j \in direct}

\* C11: when every input of composeBindings is a plain value, the result
\* holds the combiner applied to those constants, the combiner was applied
\* exactly once, and nothing the result is computed from can be updated.
C11_ConstantCompose ==
    \A c \in composed :
        AllPlain(c.inputs) =>
            /\ heap[c.res].value = <<Apply(c.combiner, c.inputs)>>
            /\ heap[c.res].evals = 1
            /\ \A j \in Upstream(heap, c.res) : ~heap[j].settable

\* A composition of a constant, beside a source binding a caller made and
\* can update.
C11_Witness ==
    \E c \in composed :
        /\ AllPlain(c.inputs)
        /\ heap[c.res].evals = 1
        /\ heap[c.res].value = <<Apply(c.combiner, c.inputs)>>
        /\ \E i \in 1..Len(heap) : i > c.res /\ heap[i].settable

\* C15 as stated: a plain object that has fields named getValue and map is
\* not taken for a binding: toBinding lifts it into a new constant binding.
C15_Original ==
    lastTo.called /\ lastTo.arg.t = "obj" =>
        /\ ~isBinding(lastTo.arg)
        /\ lastTo.allocs = 1
        /\ lastTo.res # lastTo.arg

CurrentValuesIn(h, xs) ==
    [i \in 1..Len(xs) |-> IF xs[i].t = "ref" THEN h[xs[i].v].value[1] ELSE xs[i]]

\* C14: when a source update makes a composed binding recompute and its
\* combiner raises for the new values, the update raises (the error is not
\* swallowed) and the composed binding keeps the value it had.
C14_CombinerFault ==
    [][updated' # 0 =>
          \A c \in composed :
              /\ updated' \in Upstream(heap, c.res)
              /\ Apply(c.combiner, CurrentValuesIn(heap', c.inputs)) = Err
              => /\ raised'
                 /\ heap'[c.res].value = heap[c.res].value]_vars

\* compose(3, container(4), capped) holds 7 after the update of the
\* container to 10 raised.
C14_Witness ==
    /\ raised
    /\ updated # 0
    /\ \E c \in composed :
          /\ c.combiner = "capped"
          /\ c.inputs[1] = Num(3)
          /\ c.inputs[2].t = "ref"
          /\ heap[c.inputs[2].v].value = <<Num(10)>>
          /\ heap[c.res].value = <<Num(7)>>

\* ------------------------------------------------------------------------
\* Further properties of useDebounceCallback
\* ------------------------------------------------------------------------
\* What the most recent completed invocation of the callback returned
\* (nothing, 0, before the first one).
LastResult ==
    IF hist.lastCb = "none" THEN 0 ELSE Return(hist.lastCb, hist.lastArg)

\* C12: a run call returns the result of the most recent completed
\* invocation of the callback; a call that is only scheduled returns what
\* the previous invocation produced, not a value made from its own
\* arguments.
C12_RunResult ==
    hist.op = "run" => hist.runRet = LastResult

\* A run call that was only scheduled returned the result of an earlier
\* invocation with another argument.
C12_Witness ==
    /\ hook = "callback"
    /\ hist.op = "run"
    /\ ~hist.invoked
    /\ hist.lastCb # "none"
    /\ hist.lastArg # hist.lastRunArg
    /\ hist.runRet = Return(hist.lastCb, hist.lastArg)
    /\ hist.runRet # Return(callbackRef, hist.lastRunArg)

\* C13: options outside the valid domain (a negative wait, a negative
\* maxWait, a maxWait below wait) are reported as an error when the
\* scheduler is made: no scheduler is made from them and no run call on one
\* happens.
C13_Original ==
    opts0 \in BadOptions =>
        /\ ~debounced.created
        /\ phase = "unmounted"
        /\ hist.op # "run"

\* C16: cancel() on an Idle scheduler, one that was just cancelled
\* included, changes nothing: the scheduler stays Idle with its last result,
\* no timer appears, the callback is not invoked and the state is kept.
C16_CancelIdempotent ==
    [][hist'.op = "cancel" /\ debounced.status = "Idle" =>
          /\ debounced' = debounced
          /\ timers' = timers
          /\ state' = state
          /\ ~hist'.invoked
          /\ hist'.lastCb = hist.lastCb
          /\ hist'.lastArg = hist.lastArg]_vars

\* cancel() was called twice in a row after an invocation left a result.
C16_Witness ==
    /\ hist.op = "cancel"
    /\ hist.again
    /\ debounced.status = "Idle"
    /\ debounced.result # 0
    /\ timers = {}

\* C18: whatever run, cancel, flush, timer expiry and unmount did, the
\* scheduler has at most one live timer, and it has one exactly while a call
\* is Pending.
C18_OneTimer ==
    /\ Cardinality(timers) <= 1
    /\ debounced.status = "Pending" <=> timers # {}

\* A run call made while Pending moved the one timer to a later deadline.
C18_Witness ==
    /\ hist.op = "run"
    /\ hist.runs >= 2
    /\ hist.lastRunTime > hist.burstStart
    /\ ~debounced.maxing
    /\ timers = {hist.lastRunTime + debounced.wait}

\* C19: when the scheduler fires, by its timer or by flush, it invokes the
\* callback of the most recent render, also when the component rendered
\* with another callback after the run call.
C19_LatestCallback ==
    [][hist'.invoked => hist'.lastCb = hist.renderCb]_vars

\* The timer fired the callback of a render that came after the run call.
C19_Witness ==
    /\ hist.op = "timer"
    /\ hist.invoked
    /\ hist.runCb # "none"
    /\ hist.runCb # hist.renderCb
    /\ hist.lastCb = hist.renderCb

\* The options the scheduler d was made with.
OptionsOf(d) ==
    [wait |-> d.wait, maxing |-> d.maxing, maxWait |-> d.maxWait,
     leading |-> d.leading, trailing |-> d.trailing]

\* C20: the component has one scheduler for its whole life. It keeps the
\* wait and options of the first render, and a re-render, also one with
\* other options or another callback, leaves the scheduler and its timer as
\* they were: a Pending call stays Pending and the burst of run calls goes
\* on.
C20_OneScheduler ==
    [][/\ debounced'.created => OptionsOf(debounced') = opts0'
       /\ phase = "mounted" /\ hist'.op = "other" /\ now' = now =>
              /\ debounced' = debounced
              /\ timers' = timers
              /\ UseDebounceResult_pending(debounced', timers')
                     = UseDebounceResult_pending(debounced, timers)
              /\ hist'.runs = hist.runs
              /\ hist'.burstStart = hist.burstStart]_vars

\* A re-render passed other options and another callback while a call was
\* Pending, and the call is still Pending on the first render's options.
C20_Witness ==
    /\ hist.op = "other"
    /\ hist.reopts
    /\ hist.runCb # "none"
    /\ hist.runCb # hist.renderCb
    /\ debounced.status = "Pending"
    /\ timers # {}
    /\ OptionsOf(debounced) = opts0

\* ------------------------------------------------------------------------
\* Properties of useUpdateEffect
\* ------------------------------------------------------------------------
\* C17: useUpdateEffect does not run its effect on the first render, and on
\* a later render it runs the effect exactly when the dependencies changed
\* (on every one when no dependencies are given).
C17_UpdateEffect ==
    /\ uhist.op = "first" => ~uhist.ran
    /\ uhist.op = "rerender" => (uhist.ran <=> uhist.changed)
    /\ uhist.op = "rerender" /\ dependencies = NoDeps => uhist.ran

\* A re-render with changed dependencies ran the effect, after it had run
\* before and left a cleanup.
C17_Witness ==
    /\ uhist.op = "rerender"
    /\ dependencies # NoDeps
    /\ uhist.changed
    /\ uhist.ran
    /\ uhist.cleaned

====
